---- MODULE Spec2Model ----
(***************************************************************************)
(* A model of the droidamp backend: the in-memory result cache             *)
(* (services/cache.py), the YouTube extraction service                     *)
(* (services/youtube.py) and the search router (routers/search.py).        *)
(*                                                                         *)
(* Strings are sequences of tokens.  A token is one character ("a", "A",   *)
(* " ") or a lower-case run of characters that the router prepends to a    *)
(* video id ("track:", "mix:", "next:").                                   *)
(***************************************************************************)
EXTENDS Integers, Sequences, FiniteSets, TLC

VARIABLES
    now,        \* the wall clock read by time.time(), in whole seconds
    ticks,      \* how many times the clock has advanced (bounds the model)
    cache,      \* CacheService._cache: digest -> [value, cached_at]
    lastSet,    \* history: digest -> the arguments and time of the latest set
    ret,        \* what the operation that ran last was given and returned
    served,     \* how many calls have been started (bounds the model)
    stored,     \* history: every <<digest, value>> a set has written
    threads     \* the call each thread of the host is running, and where

vars == <<now, ticks, cache, lastSet, ret, served, stored, threads>>

\* what the specifications with a single caller leave alone
conc == <<served, stored, threads>>

----------------------------------------------------------------------------
(* Bounds of the model *)

MaxTicks == 3

\* the number of calls the concurrent callers start
MaxCalls == 3

\* the number of requests the router serves one after another
MaxRequests == 2

\* the longest list of formats of one raw entry
MaxFormats == 3

\* the longest list of entries a flat extraction or a search returns
MaxEntries == 3

TickSteps == {100, 10800}

----------------------------------------------------------------------------
(* Program constants *)

\* config.py: cache_ttl_seconds
CacheTtlSeconds == 10800

\* cache.py: the 30 minute buffer before a stream URL expires
ExpiryBuffer == 1800

\* youtube.py: expires_at = int(time.time()) + 14400
StreamHorizon == 14400

----------------------------------------------------------------------------
(* Values *)

None == [kind |-> "None"]

\* A Python string that is not there: dict.get(...) returning None
Missing == <<"<missing>">>

EmptyStr == <<>>

\* `not x` for an optional string
Falsy(x) == x \in {Missing, EmptyStr}

RaisedMsg(exc, msg) == [kind |-> "Raise", exc |-> exc, msg |-> msg]

Raised(exc) == RaisedMsg(exc, EmptyStr)

TrackResponse(video_id, stream_url, expires_at) ==
    [kind |-> "Track", video_id |-> video_id, stream_url |-> stream_url,
     expires_at |-> expires_at]

MixPlaylistResponse(video_ids, mix_id) ==
    [kind |-> "Mix", video_ids |-> video_ids, mix_id |-> mix_id]

----------------------------------------------------------------------------
(* str.lower() and str.strip() *)

LowerChar(c) ==
    CASE c = "A" -> "a"
      [] c = "B" -> "b"
      [] OTHER   -> c

Lower(s) == [i \in 1..Len(s) |-> LowerChar(s[i])]

RECURSIVE LStrip(_)
LStrip(s) ==
    IF s # <<>> /\ Head(s) = " " THEN LStrip(Tail(s)) ELSE s

RECURSIVE RStrip(_)
RStrip(s) ==
    IF s # <<>> /\ s[Len(s)] = " " THEN RStrip(SubSeq(s, 1, Len(s) - 1)) ELSE s

Strip(s) == RStrip(LStrip(s))

\* hashlib.sha256(...).hexdigest()[:16]: an injective tag of the text hashed
\* (collisions of the 64-bit digest are left out of the model)
HexDigest16(s) == <<"sha256">> \o s

CacheKeyLowerOnly(query) == HexDigest16(Lower(query))

CacheKey(query) == HexDigest16(Strip(Lower(query)))

----------------------------------------------------------------------------
(* CacheService *)

Entry(response, cached_at) == [value |-> response, cached_at |-> cached_at]

Without(c, key) == [k \in DOMAIN c \ {key} |-> c[k]]

With(c, key, e) == [k \in DOMAIN c \cup {key} |-> IF k = key THEN e ELSE c[k]]

TtlStale(e, t) == t - e.cached_at > CacheTtlSeconds

\* response.expires_at: a MixPlaylistResponse has no such attribute
HasExpiresAt(response) == response.kind = "Track"

UrlExpired(response, t) == response.expires_at < t + ExpiryBuffer

\* CacheService.get: the cache it leaves and what it returns or raises
CacheGetNoTtl(c, query, t) ==
    LET key == CacheKey(query) IN
    IF key \notin DOMAIN c THEN [cache |-> c, out |-> None]
    ELSE LET response == c[key].value IN
         IF ~HasExpiresAt(response)
            THEN [cache |-> c, out |-> Raised("AttributeError")]
         ELSE IF UrlExpired(response, t)
            THEN [cache |-> Without(c, key), out |-> None]
         ELSE [cache |-> c, out |-> response]

CacheGet(c, query, t) ==
    LET key == CacheKey(query) IN
    IF key \notin DOMAIN c THEN [cache |-> c, out |-> None]
    ELSE LET response == c[key].value
             cached_at == c[key].cached_at
         IN  IF t - cached_at > CacheTtlSeconds
                THEN [cache |-> Without(c, key), out |-> None]
             ELSE IF ~HasExpiresAt(response)
                THEN [cache |-> c, out |-> Raised("AttributeError")]
             ELSE IF UrlExpired(response, t)
                THEN [cache |-> Without(c, key), out |-> None]
             ELSE [cache |-> c, out |-> response]

\* CacheService.set
CacheSetKeepAge(c, query, response, t) ==
    LET key == CacheKey(query) IN
    With(c, key, Entry(response, IF key \in DOMAIN c THEN c[key].cached_at ELSE t))

CacheSet(c, query, response, t) ==
    With(c, CacheKey(query), Entry(response, t))

\* CacheService.clear_expired: the condition of the list comprehension; the
\* right operand of `or` is evaluated only when the left one is false
SweepRaises(c, t) ==
    \E k \in DOMAIN c : ~TtlStale(c[k], t) /\ ~HasExpiresAt(c[k].value)

ExpiredKeys(c, t) ==
    {k \in DOMAIN c : TtlStale(c[k], t) \/ UrlExpired(c[k].value, t)}

ClearExpired(c, t) ==
    IF SweepRaises(c, t) THEN [cache |-> c, out |-> Raised("AttributeError")]
    ELSE [cache |-> [k \in DOMAIN c \ ExpiredKeys(c, t) |-> c[k]], out |-> None]

----------------------------------------------------------------------------
(* The extractor (yt_dlp.YoutubeDL.extract_info), as the service sees it *)

\* extract_info raising yt_dlp.utils.DownloadError
DownloadError(msg) == [kind |-> "DownloadError", msg |-> msg]

\* one format of an info dict
RawFormat(acodec, vcodec, url) ==
    [acodec |-> acodec, vcodec |-> vcodec, url |-> url]

\* the info dict of one video
RawEntry(id, url, formats) ==
    [kind |-> "Entry", id |-> id, url |-> url, formats |-> formats]

\* the info dict of a search or a playlist; has_entries: "entries" in info
RawList(has_entries, entries) ==
    [kind |-> "List", has_entries |-> has_entries, entries |-> entries]

\* an entry of a flat extraction: an id and no formats
FlatEntry(id) == RawEntry(id, Missing, <<>>)

----------------------------------------------------------------------------
(* YouTubeService._parse_entry *)

NotFoundError(msg) == RaisedMsg("NotFoundError", msg)

ExtractionError(msg) == RaisedMsg("ExtractionError", msg)

YtDlpFailed(e) == ExtractionError(<<"yt-dlp failed: ">> \o e.msg)

AudioOnlyAnyVideo(f) == f.acodec # <<"none">>

AudioOnly(f) == f.acodec # <<"none">> /\ f.vcodec = <<"none">>

IsOpus(f) == f.acodec = <<"opus">>

StreamUrl(url) == [kind |-> "Url", url |-> url]

BestFormatFirstAudio(audio_formats) == audio_formats[1]

\* best = opus_formats[0] if opus_formats else audio_formats[0]
BestFormat(audio_formats) ==
    LET opus_formats == SelectSeq(audio_formats, IsOpus) IN
    IF opus_formats # <<>> THEN opus_formats[1] ELSE audio_formats[1]

\* the part of _parse_entry that finds stream_url
SelectStream(entry) ==
    LET audio_formats == SelectSeq(entry.formats, AudioOnly) IN
    IF audio_formats = <<>>
       THEN IF Falsy(entry.url)
               THEN ExtractionError(<<"No audio stream found">>)
               ELSE StreamUrl(entry.url)
       ELSE LET best == BestFormat(audio_formats) IN
            IF best.url = Missing
               THEN RaisedMsg("KeyError", <<"url">>)
               ELSE StreamUrl(best.url)

ParseEntrySixHours(entry, t) ==
    IF entry = None THEN RaisedMsg("AttributeError", <<"get">>)
    ELSE LET stream == SelectStream(entry) IN
         IF stream.kind = "Raise" THEN stream
         ELSE IF entry.id = Missing THEN RaisedMsg("KeyError", <<"id">>)
         ELSE TrackResponse(entry.id, stream.url, t + StreamHorizon + 7200)

ParseEntry(entry, t) ==
    IF entry = None THEN RaisedMsg("AttributeError", <<"get">>)
    ELSE LET stream == SelectStream(entry) IN
         IF stream.kind = "Raise" THEN stream
         ELSE IF entry.id = Missing THEN RaisedMsg("KeyError", <<"id">>)
         ELSE TrackResponse(entry.id, stream.url, t + StreamHorizon)

----------------------------------------------------------------------------
(* YouTubeService: each operation takes what extract_info gives it *)

\* `not info` for a search or playlist result: None or an empty dict
NoInfo(info) == info = None

\* "entries" not in info
NoEntriesField(info) == ~info.has_entries

SearchAndExtractLast(info, t) ==
    IF info.kind = "DownloadError" THEN YtDlpFailed(info)
    ELSE IF NoInfo(info) \/ NoEntriesField(info)
       THEN NotFoundError(<<"No results found">>)
    ELSE IF info.entries = <<>> THEN NotFoundError(<<"No results found">>)
    ELSE ParseEntry(info.entries[Len(info.entries)], t)

SearchAndExtract(info, t) ==
    IF info.kind = "DownloadError" THEN YtDlpFailed(info)
    ELSE IF NoInfo(info) \/ NoEntriesField(info)
       THEN NotFoundError(<<"No results found">>)
    ELSE IF info.entries = <<>> THEN NotFoundError(<<"No results found">>)
    ELSE ParseEntry(info.entries[1], t)

ExtractById(info, t) ==
    IF info.kind = "DownloadError" THEN YtDlpFailed(info)
    ELSE ParseEntry(info, t)

\* e and e.get("id")
HasId(e) == e # None /\ ~Falsy(e.id)

IdOf(e) == e.id

\* [e.get("id") for e in entries]
IdsOf(entries) == [i \in 1..Len(entries) |-> IdOf(entries[i])]

\* info.get("entries", [])
EntriesOf(info) == IF info.has_entries THEN info.entries ELSE <<>>

GetMixPlaylist(video_id, info) ==
    IF info.kind = "DownloadError" THEN YtDlpFailed(info)
    ELSE IF NoInfo(info) THEN NotFoundError(<<"Could not get mix playlist">>)
    ELSE IF EntriesOf(info) = <<>> THEN NotFoundError(<<"Empty mix playlist">>)
    ELSE MixPlaylistResponse(IdsOf(SelectSeq(EntriesOf(info), HasId)),
                             <<"RD">> \o video_id)

\* the loop of get_next_track: the id of the first entry that is not None and
\* whose id is not in exclude_ids; None when the loop ends without a break
RECURSIVE FirstNotExcluded(_, _)
FirstNotExcluded(entries, exclude_ids) ==
    IF entries = <<>> THEN Missing
    ELSE IF Head(entries) # None /\ Head(entries).id \notin exclude_ids
       THEN Head(entries).id
    ELSE FirstNotExcluded(Tail(entries), exclude_ids)

ChosenId(id) == [kind |-> "Id", id |-> id]

\* get_next_track up to the call of extract_by_id
SelectNextNoSeed(video_id, exclude_ids, info) ==
    IF info.kind = "DownloadError" THEN YtDlpFailed(info)
    ELSE IF NoInfo(info) THEN NotFoundError(<<"Could not get recommendations">>)
    ELSE IF EntriesOf(info) = <<>>
       THEN NotFoundError(<<"No recommendations found">>)
    ELSE LET next_video_id == FirstNotExcluded(EntriesOf(info), exclude_ids) IN
         IF Falsy(next_video_id)
            THEN NotFoundError(<<"No next track found (all excluded)">>)
            ELSE ChosenId(next_video_id)

SelectNext(video_id, exclude_ids, info) ==
    IF info.kind = "DownloadError" THEN YtDlpFailed(info)
    ELSE IF NoInfo(info) THEN NotFoundError(<<"Could not get recommendations">>)
    ELSE IF EntriesOf(info) = <<>>
       THEN NotFoundError(<<"No recommendations found">>)
    ELSE LET next_video_id ==
                 FirstNotExcluded(EntriesOf(info), exclude_ids \cup {video_id})
         IN  IF Falsy(next_video_id)
                THEN NotFoundError(<<"No next track found (all excluded)">>)
                ELSE ChosenId(next_video_id)

\* get_next_track; full[id] is what extract_info gives for the chosen id
GetNextTrack(video_id, exclude_ids, info, full, t) ==
    LET sel == SelectNext(video_id, exclude_ids, info) IN
    IF sel.kind = "Raise" THEN sel ELSE ExtractById(full[sel.id], t)

----------------------------------------------------------------------------
(* The calls of ydl.extract_info that each operation of YouTubeService makes *)

\* one call of extract_info: a search, a full fetch of an id or the flat
\* fetch of the mix of an id
ExtractInfo(mode, arg) == [mode |-> mode, arg |-> arg]

SearchCalls(query) == <<ExtractInfo("search", query)>>

ByIdCalls(video_id) == <<ExtractInfo("full", video_id)>>

MixCalls(video_id) == <<ExtractInfo("flat", video_id)>>

\* get_next_track: the flat call, then extract_by_id for the id selected
NextCallsEveryCandidate(video_id, exclude_ids, info) ==
    <<ExtractInfo("flat", video_id)>> \o
    (IF info.kind = "List"
        THEN [i \in 1..Len(SelectSeq(EntriesOf(info), HasId)) |->
                 ExtractInfo("full", SelectSeq(EntriesOf(info), HasId)[i].id)]
        ELSE <<>>)

NextCalls(video_id, exclude_ids, info) ==
    LET sel == SelectNext(video_id, exclude_ids, info) IN
    <<ExtractInfo("flat", video_id)>> \o
    (IF sel.kind = "Raise" THEN <<>> ELSE ByIdCalls(sel.id))

\* the calls of one operation of the service
ServiceCalls(req, info) ==
    CASE req.op = "search" -> SearchCalls(req.video_id)
      [] req.op = "by_id"  -> ByIdCalls(req.video_id)
      [] req.op = "mix"    -> MixCalls(req.video_id)
      [] req.op = "next"   -> NextCalls(req.video_id, req.exclude, info)

----------------------------------------------------------------------------
(* The cache driven directly: any caller, any key, any value *)

Queries == { <<"a">>, <<" ", "A">>, <<"b">> }

UnitVideoIds == { <<"a">> }

ExpiryOffsets == {1700, 1800, StreamHorizon}

UnitValues(t) ==
    { TrackResponse(v, <<"u1">>, t + d) : v \in UnitVideoIds, d \in ExpiryOffsets }
    \cup { MixPlaylistResponse(<<v>>, <<"RD">> \o v) : v \in UnitVideoIds }

NoCall == [op |-> "none"]

Init ==
    /\ now = 0
    /\ ticks = 0
    /\ cache = <<>>
    /\ lastSet = <<>>
    /\ served = 0
    /\ stored = {}
    /\ threads = <<>>
    /\ ret = NoCall

Tick ==
    /\ ticks < MaxTicks
    /\ \E d \in TickSteps : now' = now + d
    /\ ticks' = ticks + 1
    /\ UNCHANGED <<cache, lastSet, ret, conc>>

DoGet(q) ==
    LET r == CacheGet(cache, q, now) IN
    /\ cache' = r.cache
    /\ ret' = [op |-> "get", q |-> q, at |-> now,
               found |-> IF CacheKey(q) \in DOMAIN cache
                            THEN cache[CacheKey(q)] ELSE None,
               out |-> r.out]
    /\ UNCHANGED <<now, ticks, lastSet, conc>>

DoSet(q, v) ==
    /\ cache' = CacheSet(cache, q, v, now)
    /\ lastSet' = With(lastSet, CacheKey(q),
                       [value |-> v, cached_at |-> now,
                        over |-> /\ CacheKey(q) \in DOMAIN cache
                                 /\ cache[CacheKey(q)].cached_at < now
                                 /\ cache[CacheKey(q)].value # v])
    /\ ret' = [op |-> "set", q |-> q, at |-> now, found |-> None, out |-> None]
    /\ UNCHANGED <<now, ticks, conc>>

DoSweep ==
    LET r == ClearExpired(cache, now) IN
    /\ cache' = r.cache
    /\ ret' = [op |-> "sweep", q |-> <<>>, at |-> now, found |-> None,
               out |-> r.out]
    /\ UNCHANGED <<now, ticks, lastSet, conc>>

Next ==
    \/ Tick
    \/ \E q \in Queries : DoGet(q)
    \/ \E q \in Queries : \E v \in UnitValues(now) : DoSet(q, v)
    \/ DoSweep

Spec == Init /\ [][Next]_vars

----------------------------------------------------------------------------
(* _parse_entry applied to one raw entry *)

CodecKinds ==
    { [acodec |-> <<"aac">>,  vcodec |-> <<"none">>, has_url |-> TRUE],
      [acodec |-> <<"opus">>, vcodec |-> <<"none">>, has_url |-> TRUE],
      [acodec |-> <<"aac">>,  vcodec |-> <<"h264">>, has_url |-> TRUE],
      [acodec |-> <<"opus">>, vcodec |-> <<"h264">>, has_url |-> TRUE],
      [acodec |-> <<"none">>, vcodec |-> <<"none">>, has_url |-> TRUE],
      [acodec |-> Missing,    vcodec |-> <<"none">>, has_url |-> TRUE],
      [acodec |-> <<"opus">>, vcodec |-> Missing,    has_url |-> TRUE],
      [acodec |-> <<"opus">>, vcodec |-> <<"none">>, has_url |-> FALSE] }

\* the url of the i-th format of an entry
FormatUrl(i) == <<"fmt", ToString(i)>>

FormatLists ==
    UNION { { [i \in 1..n |->
                  RawFormat(ks[i].acodec, ks[i].vcodec,
                            IF ks[i].has_url THEN FormatUrl(i) ELSE Missing)]
              : ks \in [1..n -> CodecKinds] }
            : n \in 0..MaxFormats }

ParseInputs ==
    {None} \cup
    { RawEntry(id, url, fs) :
        id \in {<<"a">>, Missing}, url \in {Missing, EmptyStr, <<"direct">>},
        fs \in FormatLists }

Pending(req) == [op |-> "pending", req |-> req]

ParseInit ==
    /\ now = 0
    /\ ticks = 0
    /\ cache = <<>>
    /\ lastSet = <<>>
    /\ served = 0
    /\ stored = {}
    /\ threads = <<>>
    /\ \E e \in ParseInputs : ret = Pending(e)

ParseTick ==
    /\ ret.op = "pending"
    /\ Tick

DoParse ==
    /\ ret.op = "pending"
    /\ ret' = [op |-> "parse", req |-> ret.req, at |-> now,
               stream |-> IF ret.req = None THEN None ELSE SelectStream(ret.req),
               out |-> ParseEntry(ret.req, now)]
    /\ UNCHANGED <<now, ticks, cache, lastSet, conc>>

ParseNext == ParseTick \/ DoParse

ParseSpec == ParseInit /\ [][ParseNext]_vars

----------------------------------------------------------------------------
(* The four operations of YouTubeService, one call each *)

SvcVideoIds == { <<"a">>, <<"b">>, <<"c">> }

GoodFormats ==
    << RawFormat(<<"aac">>, <<"none">>, FormatUrl(1)),
       RawFormat(<<"opus">>, <<"none">>, FormatUrl(2)) >>

\* what extract_info gives for one video id, by kind of outcome
FullKinds == {"ok", "direct", "no_audio", "no_id", "null", "error"}

FullFetch(kind, id) ==
    CASE kind = "ok"       -> RawEntry(id, Missing, GoodFormats)
      [] kind = "direct"   -> RawEntry(id, <<"direct">>, <<>>)
      [] kind = "no_audio" -> RawEntry(id, Missing, <<>>)
      [] kind = "no_id"    -> RawEntry(Missing, Missing, GoodFormats)
      [] kind = "null"     -> None
      [] kind = "error"    -> DownloadError(<<"boom">>)

SeqsUpTo(S, n) == UNION { [1..m -> S] : m \in 0..n }

ListInfos(elems, n) ==
    { DownloadError(<<"boom">>), None, RawList(FALSE, <<>>) }
    \cup { RawList(TRUE, es) : es \in SeqsUpTo(elems, n) }

FlatElems == {None, FlatEntry(Missing)} \cup {FlatEntry(v) : v \in SvcVideoIds}

FlatInfos == ListInfos(FlatElems, MaxEntries)

SearchElems == {None} \cup {FullFetch(k, <<"a">>) : k \in {"ok", "no_audio"}}
                      \cup {FullFetch(k, <<"b">>) : k \in {"ok", "direct"}}

SearchInfos == ListInfos(SearchElems, MaxEntries)

SvcRequests ==
    { [op |-> "search", video_id |-> EmptyStr, exclude |-> {}] }
    \cup { [op |-> o, video_id |-> v, exclude |-> {}] :
             o \in {"by_id", "mix"}, v \in SvcVideoIds }
    \cup { [op |-> "next", video_id |-> v, exclude |-> x] :
             v \in SvcVideoIds, x \in SUBSET SvcVideoIds }

SvcInit ==
    /\ now = 0
    /\ ticks = 0
    /\ cache = <<>>
    /\ lastSet = <<>>
    /\ served = 0
    /\ stored = {}
    /\ threads = <<>>
    /\ \E r \in SvcRequests : ret = Pending(r)

SvcDone(info, full, sel, out) ==
    /\ ret' = [op |-> ret.req.op, req |-> ret.req, at |-> now, info |-> info,
               full |-> full, sel |-> sel, out |-> out,
               calls |-> ServiceCalls(ret.req, info)]
    /\ UNCHANGED <<now, ticks, cache, lastSet, conc>>

DoSearchAndExtract ==
    /\ ret.op = "pending" /\ ret.req.op = "search"
    /\ \E info \in SearchInfos :
          SvcDone(info, "n/a", None, SearchAndExtract(info, now))

DoExtractById ==
    /\ ret.op = "pending" /\ ret.req.op = "by_id"
    /\ \E k \in FullKinds :
          SvcDone(FullFetch(k, ret.req.video_id), k, None,
                  ExtractById(FullFetch(k, ret.req.video_id), now))

DoGetMixPlaylist ==
    /\ ret.op = "pending" /\ ret.req.op = "mix"
    /\ \E info \in FlatInfos :
          SvcDone(info, "n/a", None, GetMixPlaylist(ret.req.video_id, info))

DoGetNextTrack ==
    /\ ret.op = "pending" /\ ret.req.op = "next"
    /\ \E info \in FlatInfos : \E k \in FullKinds :
          SvcDone(info, k,
                  SelectNext(ret.req.video_id, ret.req.exclude, info),
                  GetNextTrack(ret.req.video_id, ret.req.exclude, info,
                               [id \in SvcVideoIds |-> FullFetch(k, id)], now))

SvcNext ==
    \/ DoSearchAndExtract
    \/ DoExtractById
    \/ DoGetMixPlaylist
    \/ DoGetNextTrack

SvcSpec == SvcInit /\ [][SvcNext]_vars

----------------------------------------------------------------------------
(* routers/search.py: the four handlers, each run from start to finish *)

\* settings.api_key
ApiKey == <<"secret">>

\* get_next_track skips the cache when the exclude list has this many ids
NextCacheMaxExclude == 5

Http(status, code, error) ==
    [kind |-> "HTTP", status |-> status, code |-> code, error |-> error]

\* the except clauses of a handler; any other exception is a 500 of the host
MapFailure(r) ==
    IF r.exc = "NotFoundError" THEN Http(404, "NOT_FOUND", r.msg)
    ELSE IF r.exc = "ExtractionError" THEN Http(502, "EXTRACTION_FAILED", r.msg)
    ELSE Http(500, r.exc, r.msg)

\* response_model=...: a value of another model fails response validation
ResponseModel(value, kind) ==
    IF value.kind = kind THEN value
    ELSE Http(500, "ResponseValidationError", EmptyStr)

\* what a handler leaves and answers: hit, served from the cache; wrote, the
\* value it stored under key (None when it stored nothing); extracted,
\* whether it has called the service; calls, the extract_info calls it made
Answer(c, out, hit, key, wrote) ==
    [cache |-> c, out |-> out, hit |-> hit, key |-> key, wrote |-> wrote,
     extracted |-> FALSE, calls |-> <<>>]

\* the handler has got as far as its call of youtube.*
Extracted(a) == [a EXCEPT !.extracted = TRUE]

\* the extract_info calls of a handler whose service call makes these calls
Called(a, calls) == [a EXCEPT !.calls = IF a.extracted THEN calls ELSE <<>>]

\* the tail of every handler: map a failure, else cache.set and return
StoreAndReturnAlways(c, cache_key, r, t, kind) ==
    Extracted(
        Answer(CacheSet(c, cache_key, r, t),
               IF r.kind = "Raise" THEN MapFailure(r) ELSE ResponseModel(r, kind),
               FALSE, cache_key, r))

StoreAndReturn(c, cache_key, r, t, kind) ==
    Extracted(
        IF r.kind = "Raise" THEN Answer(c, MapFailure(r), FALSE, cache_key, None)
        ELSE Answer(CacheSet(c, cache_key, r, t), ResponseModel(r, kind), FALSE,
                    cache_key, r))

\* cached = cache.get(cache_key); if cached: return cached
CacheAside(c, cache_key, r, t, kind) ==
    LET g == CacheGet(c, cache_key, t) IN
    IF g.out.kind = "Raise"
       THEN Answer(g.cache, MapFailure(g.out), FALSE, cache_key, None)
    ELSE IF g.out # None
       THEN Answer(g.cache, ResponseModel(g.out, kind), TRUE, cache_key, None)
    ELSE StoreAndReturn(g.cache, cache_key, r, t, kind)

SearchLucky(c, q, info, t) ==
    Called(CacheAside(c, q, SearchAndExtract(info, t), t, "Track"),
           SearchCalls(q))

MixRoute(c, video_id, info, t) ==
    Called(CacheAside(c, <<"mix:">> \o video_id,
                      GetMixPlaylist(video_id, info), t, "Mix"),
           MixCalls(video_id))

TrackRoute(c, video_id, info, t) ==
    Called(CacheAside(c, <<"track:">> \o video_id, ExtractById(info, t), t,
                      "Track"),
           ByIdCalls(video_id))

NextRouteSeedChecked(c, video_id, exclude_ids, info, full, t) ==
    LET cache_key == <<"next:">> \o video_id
        r == GetNextTrack(video_id, exclude_ids, info, full, t)
    IN  Called(
        IF Cardinality(exclude_ids) < NextCacheMaxExclude
           THEN LET g == CacheGet(c, cache_key, t) IN
                IF g.out.kind = "Raise"
                   THEN Answer(g.cache, MapFailure(g.out), FALSE, cache_key, None)
                ELSE IF g.out # None
                        /\ g.out.video_id \notin exclude_ids \cup {video_id}
                   THEN Answer(g.cache, ResponseModel(g.out, "Track"), TRUE,
                               cache_key, None)
                ELSE StoreAndReturn(g.cache, cache_key, r, t, "Track")
           ELSE StoreAndReturn(c, cache_key, r, t, "Track"),
        NextCalls(video_id, exclude_ids, info))

NextRoute(c, video_id, exclude_ids, info, full, t) ==
    LET cache_key == <<"next:">> \o video_id
        r == GetNextTrack(video_id, exclude_ids, info, full, t)
    IN  Called(
        IF Cardinality(exclude_ids) < NextCacheMaxExclude
           THEN LET g == CacheGet(c, cache_key, t) IN
                IF g.out.kind = "Raise"
                   THEN Answer(g.cache, MapFailure(g.out), FALSE, cache_key, None)
                ELSE IF g.out # None /\ g.out.video_id \notin exclude_ids
                   THEN Answer(g.cache, ResponseModel(g.out, "Track"), TRUE,
                               cache_key, None)
                ELSE StoreAndReturn(g.cache, cache_key, r, t, "Track")
           ELSE StoreAndReturn(c, cache_key, r, t, "Track"),
        NextCalls(video_id, exclude_ids, info))

----------------------------------------------------------------------------
(* Requests served one after another *)

\* video ids are case-sensitive: "a" and "A" name two videos
RouterVideoIds == { <<"a">>, <<"A">>, <<"b">> }

LuckyQueries == { <<"a">>, <<"mix:", "a">>, <<"next:", "a">> }

ApiKeys == { ApiKey, <<"wrong">> }

\* the exclude lists of a request: short ones, and one of five other ids
ManyIds == { <<"v1">>, <<"v2">>, <<"v3">>, <<"v4">>, <<"v5">> }

ExcludeLists == { {}, {<<"A">>, <<"b">>}, ManyIds }

\* what the flat extraction of a mix gives
RouterFlatInfos ==
    { DownloadError(<<"boom">>), RawList(TRUE, <<>>),
      RawList(TRUE, <<FlatEntry(<<"a">>), FlatEntry(<<"A">>), FlatEntry(<<"b">>)>>) }

RouterFullKinds == {"ok", "error"}

RouterSearchInfos ==
    { DownloadError(<<"boom">>), RawList(TRUE, <<>>) }
    \cup { RawList(TRUE, <<FullFetch("ok", <<"a">>)>>) }

RouterInit == Init

Request(op, arg, exclude_ids, x_api_key) ==
    [op |-> op, arg |-> arg, exclude |-> exclude_ids, x_api_key |-> x_api_key]

\* verify_api_key raises HTTPException(401) before anything else runs
AuthorizedLate(x_api_key, c, a) ==
    IF x_api_key # ApiKey
       THEN Answer(a.cache, Http(401, "Invalid API key", EmptyStr), FALSE,
                   EmptyStr, None)
       ELSE a

Authorized(x_api_key, c, a) ==
    IF x_api_key # ApiKey
       THEN Answer(c, Http(401, "Invalid API key", EmptyStr), FALSE, EmptyStr, None)
       ELSE a

\* a handler has run: its answer and the histories of the cache
Served(req, a) ==
    /\ served < MaxRequests
    /\ served' = served + 1
    /\ cache' = a.cache
    /\ ret' = [op |-> req.op, req |-> req, at |-> now, hit |-> a.hit,
               out |-> a.out, key |-> a.key, extracted |-> a.extracted,
               calls |-> a.calls]
    /\ lastSet' = IF a.wrote = None THEN lastSet
                  ELSE With(lastSet, CacheKey(a.key),
                            [value |-> a.wrote, cached_at |-> now,
                             by |-> req])
    /\ UNCHANGED <<now, ticks, stored, threads>>

ServeLucky ==
    \E key \in ApiKeys : \E q \in LuckyQueries : \E info \in RouterSearchInfos :
        Served(Request("lucky", q, {}, key),
               Authorized(key, cache, SearchLucky(cache, q, info, now)))

ServeMix ==
    \E key \in ApiKeys : \E v \in RouterVideoIds : \E info \in RouterFlatInfos :
        Served(Request("mix", v, {}, key),
               Authorized(key, cache, MixRoute(cache, v, info, now)))

ServeTrack ==
    \E key \in ApiKeys : \E v \in RouterVideoIds : \E k \in RouterFullKinds :
        Served(Request("track", v, {}, key),
               Authorized(key, cache, TrackRoute(cache, v, FullFetch(k, v), now)))

ServeNext ==
    \E key \in ApiKeys : \E v \in RouterVideoIds : \E x \in ExcludeLists :
    \E info \in RouterFlatInfos : \E k \in RouterFullKinds :
        Served(Request("next", v, x, key),
               Authorized(key, cache,
                   NextRoute(cache, v, x, info,
                             [id \in RouterVideoIds |-> FullFetch(k, id)], now)))

RouterNext ==
    \/ Tick
    \/ ServeLucky
    \/ ServeMix
    \/ ServeTrack
    \/ ServeNext

RouterSpec == RouterInit /\ [][RouterNext]_vars

----------------------------------------------------------------------------
(* get_track_by_id called again and again *)

\* the number of resolve-by-id requests served one after another
MaxResolves == 3

\* GET /search/track: the handler run from start to finish; before is the
\* request and the answer of the resolve-by-id request served just before
ResolveById ==
    \E key \in ApiKeys : \E v \in RouterVideoIds : \E k \in RouterFullKinds :
        LET req == Request("track", v, {}, key)
            a   == Authorized(key, cache, TrackRoute(cache, v, FullFetch(k, v), now))
        IN
        /\ served < MaxResolves
        /\ served' = served + 1
        /\ cache' = a.cache
        /\ ret' = [op |-> "track", req |-> req, at |-> now, hit |-> a.hit,
                   out |-> a.out,
                   before |-> IF ret.op = "track"
                                 THEN [req |-> ret.req, out |-> ret.out]
                                 ELSE None]
        /\ lastSet' = IF a.wrote = None THEN lastSet
                      ELSE With(lastSet, CacheKey(a.key),
                                [value |-> a.wrote, cached_at |-> now,
                                 by |-> req])
        /\ UNCHANGED <<now, ticks, stored, threads>>

IdNext ==
    \/ Tick
    \/ ResolveById

IdSpec == RouterInit /\ [][IdNext]_vars

----------------------------------------------------------------------------
(* Callers on several threads: CacheService and get_track_by_id, statement *)
(* by statement.  A thread switch can fall between any two statements.     *)

Threads == {"t1", "t2"}

ConcVideoIds == { <<"a">>, <<"b">> }

TrackKey(video_id) == <<"track:">> \o video_id

ConcCalls ==
    { [op |-> "get", q |-> TrackKey(v), video_id |-> v] : v \in ConcVideoIds }
    \cup { [op |-> "set", q |-> TrackKey(v), video_id |-> v] : v \in ConcVideoIds }
    \cup { [op |-> "sweep", q |-> EmptyStr, video_id |-> EmptyStr] }
    \cup { [op |-> "track", q |-> TrackKey(v), video_id |-> v] : v \in ConcVideoIds }

Idle == [op |-> "idle", pc |-> "done"]

\* the locals of a call that has just been entered.  missed: whether, and
\* how, the get of the call has found no fresh entry ("no", "absent",
\* "stale"); with: the threads whose requests for the same key had missed and
\* were still running when this one missed
Frame(call, pc) ==
    [op |-> call.op, q |-> call.q, video_id |-> call.video_id, pc |-> pc,
     response |-> None, cached_at |-> 0, missed |-> "no", with |-> {},
     t |-> 0, size |-> -1, todo |-> {}, expired_keys |-> {},
     extracted |-> None, out |-> None]

ConcInit ==
    /\ now = 0
    /\ ticks = 0
    /\ cache = <<>>
    /\ lastSet = <<>>
    /\ ret = NoCall
    /\ served = 0
    /\ stored = {}
    /\ threads = [th \in Threads |-> Idle]

Goto(th, f) ==
    threads' = [threads EXCEPT ![th] = f]

\* the call returns or raises, and its locals are gone; an exception in a
\* handler is a 500 of the host
Finish(th, f, out) ==
    Goto(th, [Frame(f, "done") EXCEPT
                 !.missed = f.missed,
                 !.with = f.with,
                 !.extracted = f.extracted,
                 !.out = IF f.op = "track" /\ out.kind = "Raise"
                            THEN MapFailure(out) ELSE out])

\* the requests for the same key that have missed and are still running
MissingNow(th, f) ==
    {o \in Threads \ {th} :
        /\ threads[o].op = "track"
        /\ threads[o].pc # "done"
        /\ threads[o].missed # "no"
        /\ CacheKey(threads[o].q) = CacheKey(f.q)}

Missed(th, f, how) ==
    [f EXCEPT !.missed = how, !.with = MissingNow(th, f)]

\* CacheService.get returns: get is over, get_track_by_id goes on
GetReturns(th, f, value) ==
    IF f.op = "track" /\ value = None
       THEN Goto(th, [f EXCEPT !.pc = "extract"])
       ELSE Finish(th, f, value)

Call(th) ==
    /\ threads[th].pc = "done"
    /\ served < MaxCalls
    /\ served' = served + 1
    /\ \E call \in ConcCalls :
          Goto(th, Frame(call, CASE call.op = "set"   -> "set"
                                 [] call.op = "sweep" -> "sweep_now"
                                 [] OTHER             -> "get_lookup"))
    /\ UNCHANGED <<now, ticks, cache, lastSet, ret, stored>>

\* if key not in self._cache: return None
\* response, cached_at = self._cache[key]
GetLookup(th) ==
    LET f == threads[th]  key == CacheKey(f.q) IN
    /\ f.pc = "get_lookup"
    /\ IF key \notin DOMAIN cache
          THEN GetReturns(th, Missed(th, f, "absent"), None)
          ELSE Goto(th, [f EXCEPT !.pc = "get_ttl",
                                  !.response = cache[key].value,
                                  !.cached_at = cache[key].cached_at])
    /\ UNCHANGED <<now, ticks, cache, lastSet, ret, served, stored>>

\* if time.time() - cached_at > settings.cache_ttl_seconds:
GetTtl(th) ==
    LET f == threads[th] IN
    /\ f.pc = "get_ttl"
    /\ IF now - f.cached_at > CacheTtlSeconds
          THEN Goto(th, [Missed(th, f, "stale") EXCEPT !.pc = "get_del"])
          ELSE Goto(th, [f EXCEPT !.pc = "get_expiry"])
    /\ UNCHANGED <<now, ticks, cache, lastSet, ret, served, stored>>

\* if response.expires_at < time.time() + 1800:
GetExpiry(th) ==
    LET f == threads[th] IN
    /\ f.pc = "get_expiry"
    /\ IF ~HasExpiresAt(f.response)
          THEN Finish(th, f, Raised("AttributeError"))
       ELSE IF UrlExpired(f.response, now)
          THEN Goto(th, [Missed(th, f, "stale") EXCEPT !.pc = "get_del"])
       ELSE GetReturns(th, f, f.response)
    /\ UNCHANGED <<now, ticks, cache, lastSet, ret, served, stored>>

\* del self._cache[key]; return None
GetDel(th) ==
    LET f == threads[th]  key == CacheKey(f.q) IN
    /\ f.pc = "get_del"
    /\ IF key \notin DOMAIN cache
          THEN /\ Finish(th, f, RaisedMsg("KeyError", key))
               /\ UNCHANGED cache
          ELSE /\ cache' = Without(cache, key)
               /\ GetReturns(th, f, None)
    /\ UNCHANGED <<now, ticks, lastSet, ret, served, stored>>

\* track = youtube.extract_by_id(video_id)
Extract(th) ==
    LET f == threads[th] IN
    /\ f.pc = "extract"
    /\ \E k \in {"ok", "error"} :
          LET r == ExtractById(FullFetch(k, f.video_id), now) IN
          IF r.kind = "Raise"
             THEN Finish(th, [f EXCEPT !.extracted = r], r)
             ELSE Goto(th, [f EXCEPT !.pc = "set", !.extracted = r])
    /\ UNCHANGED <<now, ticks, cache, lastSet, ret, served, stored>>

\* self._cache[key] = (response, time.time())
SetItem(th) ==
    LET f == threads[th]
        value == IF f.op = "track" THEN f.extracted
                 ELSE TrackResponse(f.video_id, <<"u1">>, now + StreamHorizon)
    IN
    /\ f.pc = "set"
    /\ cache' = CacheSet(cache, f.q, value, now)
    /\ lastSet' = With(lastSet, CacheKey(f.q),
                       [value |-> value, cached_at |-> now, by |-> th])
    /\ stored' = stored \cup {<<CacheKey(f.q), value>>}
    /\ Finish(th, f, IF f.op = "track" THEN value ELSE None)
    /\ UNCHANGED <<now, ticks, ret, served>>

\* now = time.time()
SweepNow(th) ==
    LET f == threads[th] IN
    /\ f.pc = "sweep_now"
    /\ Goto(th, [f EXCEPT !.pc = "sweep_iter", !.t = now])
    /\ UNCHANGED <<now, ticks, cache, lastSet, ret, served, stored>>

\* one turn of the list comprehension over self._cache.items().  The first
\* turn makes the iterator; a later one raises when the size of the dict has
\* changed since.  The iterator ends when no key is left, or gives an item.
SweepIter(th) ==
    LET f     == threads[th]
        first == f.size = -1
        size  == IF first THEN Cardinality(DOMAIN cache) ELSE f.size
        left  == IF first THEN DOMAIN cache ELSE f.todo \cap DOMAIN cache
    IN
    /\ f.pc = "sweep_iter"
    /\ IF Cardinality(DOMAIN cache) # size
          THEN Finish(th, f, RaisedMsg("RuntimeError",
                               <<"dictionary changed size during iteration">>))
       ELSE IF left = {}
          THEN Goto(th, [f EXCEPT !.pc = "sweep_del", !.size = size])
       ELSE \E k \in left :
               IF ~TtlStale(cache[k], f.t) /\ ~HasExpiresAt(cache[k].value)
                  THEN Finish(th, f, Raised("AttributeError"))
                  ELSE Goto(th, [f EXCEPT
                          !.size = size,
                          !.todo = left \ {k},
                          !.expired_keys =
                              IF TtlStale(cache[k], f.t)
                                 \/ UrlExpired(cache[k].value, f.t)
                                 THEN f.expired_keys \cup {k}
                                 ELSE f.expired_keys])
    /\ UNCHANGED <<now, ticks, cache, lastSet, ret, served, stored>>

\* for k in expired_keys: del self._cache[k]
SweepDel(th) ==
    LET f == threads[th] IN
    /\ f.pc = "sweep_del"
    /\ IF f.expired_keys = {}
          THEN Finish(th, f, None) /\ UNCHANGED cache
          ELSE \E k \in f.expired_keys :
                  IF k \notin DOMAIN cache
                     THEN Finish(th, f, RaisedMsg("KeyError", k)) /\ UNCHANGED cache
                     ELSE /\ cache' = Without(cache, k)
                          /\ Goto(th, [f EXCEPT !.expired_keys = f.expired_keys \ {k}])
    /\ UNCHANGED <<now, ticks, lastSet, ret, served, stored>>

ConcNext ==
    \/ Tick
    \/ \E th \in Threads :
          \/ Call(th)
          \/ GetLookup(th)
          \/ GetTtl(th)
          \/ GetExpiry(th)
          \/ GetDel(th)
          \/ Extract(th)
          \/ SetItem(th)
          \/ SweepNow(th)
          \/ SweepIter(th)
          \/ SweepDel(th)

ConcSpec == ConcInit /\ [][ConcNext]_vars

----------------------------------------------------------------------------
(* Claims about the cache driven directly *)

IsValue(x) == x.kind \in {"Track", "Mix"}

GetFound(kind) ==
    /\ ret.op = "get"
    /\ ret.found # None
    /\ ret.found.value.kind = kind

FreshTrack(e, t) ==
    /\ t - e.cached_at <= CacheTtlSeconds
    /\ e.value.expires_at >= t + ExpiryBuffer

\* C1: get returns a stored Track only if its age is at most the cache TTL
\* and its expires_at is at least now + 1800; when either condition fails, get
\* returns absent and the entry is gone from the store.
C1_GetFreshness ==
    /\ (ret.op = "get" /\ ret.out.kind = "Track") =>
            /\ ret.found # None
            /\ ret.out = ret.found.value
            /\ FreshTrack(ret.found, ret.at)
    /\ (GetFound("Track") /\ ~FreshTrack(ret.found, ret.at)) =>
            /\ ret.out = None
            /\ CacheKey(ret.q) \notin DOMAIN cache

\* C1 witness: a Track cached at t with expires_at = t + 14400 is absent at
\* t + 10900, before its stream URL is near expiry.
C1_Witness ==
    /\ GetFound("Track")
    /\ ret.found.value.expires_at = ret.found.cached_at + StreamHorizon
    /\ ret.at = ret.found.cached_at + 10900
    /\ ret.found.value.expires_at >= ret.at + ExpiryBuffer
    /\ ret.out = None

\* C2: a get of a RecommendationSet entry returns it, and leaves it in the
\* store, while its age is at most the cache TTL, and returns absent and
\* evicts it afterwards; the stream-expiry condition is never applied to it.
C2_MixOnlyTtl ==
    GetFound("Mix") =>
        IF ret.at - ret.found.cached_at <= CacheTtlSeconds
           THEN /\ ret.out = ret.found.value
                /\ CacheKey(ret.q) \in DOMAIN cache
                /\ cache[CacheKey(ret.q)] = ret.found
           ELSE /\ ret.out = None
                /\ CacheKey(ret.q) \notin DOMAIN cache

NormalizedKeys == {Strip(Lower(q)) : q \in Queries}

\* C3: the store holds at most one entry per normalized key, every entry is
\* the value and the time of the latest set on its key, and a get that
\* returns a value returns the value of that latest set, whose age, counted
\* from that set, is at most the cache TTL.
C3_LatestSetWins ==
    /\ Cardinality(DOMAIN cache) <= Cardinality(NormalizedKeys)
    /\ \A k \in DOMAIN cache :
            /\ k \in DOMAIN lastSet
            /\ cache[k] = Entry(lastSet[k].value, lastSet[k].cached_at)
    /\ (ret.op = "get" /\ IsValue(ret.out)) =>
            /\ CacheKey(ret.q) \in DOMAIN lastSet
            /\ ret.out = lastSet[CacheKey(ret.q)].value
            /\ ret.at - lastSet[CacheKey(ret.q)].cached_at <= CacheTtlSeconds

\* C3 witness: a get returns the value of a set that replaced an older entry
\* of the key holding another value, later than the time of that set.
C3_Witness ==
    /\ ret.op = "get"
    /\ IsValue(ret.out)
    /\ lastSet[CacheKey(ret.q)].over
    /\ ret.at > lastSet[CacheKey(ret.q)].cached_at

----------------------------------------------------------------------------
(* Claims about YouTubeService *)

MinOf(S) == CHOOSE i \in S : \A j \in S : i <= j

NotExcluded(ids, excluded) == SelectSeq(ids, LAMBDA id : id \notin excluded)

\* C4: the id chosen for full resolution is the first id, in list order, of
\* listCandidates(seed).video_ids that is not in exclude_set \cup {seed}; the
\* operation fails with NotFound exactly when there is no such id.
C4_FirstNotExcluded ==
    (ret.op = "next" /\ ret.info.kind # "DownloadError") =>
        LET mix   == GetMixPlaylist(ret.req.video_id, ret.info)
            cands == IF mix.kind = "Mix" THEN mix.video_ids ELSE <<>>
            free  == NotExcluded(cands, ret.req.exclude \cup {ret.req.video_id})
        IN  IF free = <<>>
               THEN ret.sel.kind = "Raise" /\ ret.sel.exc = "NotFoundError"
               ELSE ret.sel = ChosenId(free[1])

IsSuccess(out) == out.kind \in {"Track", "Mix"}

IsFailure(out, exc) == out.kind = "Raise" /\ out.exc = exc

SvcOps == {"search", "by_id", "mix", "next"}

\* C6: every call of the four operations ends with a success value or with
\* NotFound or ExtractionFailed and nothing else; a failure of the extractor
\* is ExtractionFailed carrying its message, and a null raw entry or one with
\* no id is ExtractionFailed.
C6_OnlyTwoFailureKinds ==
    ret.op \in SvcOps =>
        /\ \/ IsSuccess(ret.out)
           \/ IsFailure(ret.out, "NotFoundError")
           \/ IsFailure(ret.out, "ExtractionError")
        /\ ret.info.kind = "DownloadError" =>
               ret.out = ExtractionError(<<"yt-dlp failed: ">> \o ret.info.msg)
        /\ (ret.op = "by_id" /\ ret.full \in {"null", "no_id"}) =>
               IsFailure(ret.out, "ExtractionError")

ZeroResults(info) ==
    \/ info = None
    \/ ~info.has_entries
    \/ Len(info.entries) = 0

\* C7: a search with zero results (no result object, no entries field, an
\* empty entries list) fails with NotFound and nothing else; with at least one
\* result the outcome is that of the Entry Parser on the first result.
C7_EmptySearchNotFound ==
    (ret.op = "search" /\ ret.info.kind # "DownloadError") =>
        IF ZeroResults(ret.info)
           THEN IsFailure(ret.out, "NotFoundError")
           ELSE ret.out = ParseEntry(Head(ret.info.entries), ret.at)

\* C7 witness: a search whose entries list is empty has failed with NotFound.
C7_Witness ==
    /\ ret.op = "search"
    /\ ret.info = RawList(TRUE, <<>>)
    /\ IsFailure(ret.out, "NotFoundError")

\* C8: stream_url comes from the first audio-only Opus rendition if there is
\* one, else from the first audio-only rendition; a rendition with a video
\* codec or with acodec "none" is never selected; with no audio-only rendition
\* the entry's own url is used when present, and parse fails with
\* ExtractionFailed otherwise.
C8_RenditionSelection ==
    (ret.op = "parse" /\ ret.req # None) =>
        LET fs    == ret.req.formats
            audio == {i \in 1..Len(fs) :
                        fs[i].acodec # <<"none">> /\ fs[i].vcodec = <<"none">>}
            opus  == {i \in audio : fs[i].acodec = <<"opus">>}
            pick  == IF opus # {} THEN MinOf(opus) ELSE MinOf(audio)
        IN  IF audio # {}
               THEN /\ fs[pick].url # Missing => ret.stream = StreamUrl(fs[pick].url)
                    /\ ret.out.kind = "Track" => ret.out.stream_url = fs[pick].url
                    /\ ~IsFailure(ret.out, "ExtractionError")
            ELSE IF ~Falsy(ret.req.url)
               THEN /\ ret.stream = StreamUrl(ret.req.url)
                    /\ ret.out.kind = "Track" => ret.out.stream_url = ret.req.url
            ELSE IsFailure(ret.out, "ExtractionError")

\* C8 witness: of [aac/none, opus/none, aac/h264] the Opus rendition, the
\* second, gives the stream_url of the Track.
C8_Witness ==
    /\ ret.op = "parse"
    /\ ret.req # None
    /\ ret.req.formats = << RawFormat(<<"aac">>, <<"none">>, FormatUrl(1)),
                            RawFormat(<<"opus">>, <<"none">>, FormatUrl(2)),
                            RawFormat(<<"aac">>, <<"h264">>, FormatUrl(3)) >>
    /\ ret.out.kind = "Track"
    /\ ret.out.stream_url = FormatUrl(2)

----------------------------------------------------------------------------
(* Claims about the router *)

\* every entry of the cache was stored by a get-next-unplayed request
OnlyNextStored ==
    \A k \in DOMAIN cache : lastSet[k].by.op = "next"

\* C5: in a sequence of get-next-unplayed requests, a Track returned for a
\* request never has the video_id of the request's seed nor one of the
\* request's exclude_ids, whether it was extracted or served from the cache
\* under "next:<seed>".
C5_NeverSeedNorExcluded ==
    (ret.op = "next" /\ ret.out.kind = "Track" /\ OnlyNextStored) =>
        /\ ret.out.video_id # ret.req.arg
        /\ ret.out.video_id \notin ret.req.exclude

----------------------------------------------------------------------------
(* Claims about concurrent callers *)

Finished(th, op) == threads[th].op = op /\ threads[th].pc = "done"

\* C9: under every interleaving of the statements of get, set and sweep run
\* by several callers, no operation raises an error, and every get returns
\* absent or a value that some set stored for that key.
C9_CacheThreadSafe ==
    \A th \in Threads :
        /\ (Finished(th, "get") \/ Finished(th, "set") \/ Finished(th, "sweep")) =>
               threads[th].out.kind # "Raise"
        /\ Finished(th, "get") =>
               \/ threads[th].out = None
               \/ <<CacheKey(threads[th].q), threads[th].out>> \in stored

\* two requests for the same key have missed the cache while both were
\* running, and both are over
BothMissed(t1, t2) ==
    /\ Finished(t1, "track") /\ Finished(t2, "track")
    /\ CacheKey(threads[t1].q) = CacheKey(threads[t2].q)
    /\ threads[t1].missed # "no" /\ threads[t2].missed # "no"
    /\ t2 \in threads[t1].with

OwnOutcome(th) ==
    /\ threads[th].extracted # None
    /\ threads[th].out = IF threads[th].extracted.kind = "Raise"
                            THEN MapFailure(threads[th].extracted)
                            ELSE threads[th].extracted

\* C10: when two concurrent requests for the same key have both missed the
\* cache and are both over, neither has failed because of the other: each has
\* returned what it extracted itself (or the failure of its own extraction),
\* and the cache holds for the key the value of the set that happened last.
C10_LastWriterWins ==
    \A t1, t2 \in Threads :
        BothMissed(t1, t2) =>
            LET key == CacheKey(threads[t1].q) IN
            /\ OwnOutcome(t1)
            /\ OwnOutcome(t2)
            /\ (threads[t1].out.kind = "Track" \/ threads[t2].out.kind = "Track") =>
                   /\ key \in DOMAIN cache
                   /\ lastSet[key].by \in {t1, t2}
                   /\ cache[key] = Entry(threads[lastSet[key].by].out,
                                         lastSet[key].cached_at)

----------------------------------------------------------------------------
(* Claims about repeated resolve-by-id requests *)

\* two successive requests for the same video id have both returned a Track
TwoTracks ==
    /\ ret.op = "track"
    /\ ret.before # None
    /\ ret.before.req.arg = ret.req.arg
    /\ ret.before.out.kind = "Track"
    /\ ret.out.kind = "Track"

\* C11: two successive resolve-by-id requests for the same video id return
\* Tracks with the same video_id (title and artist are read off the same raw
\* entry as video_id), and when the second is answered from the cache its
\* stream_url and expires_at are those of the first answer too.
C11_ResolveByIdIdempotent ==
    TwoTracks =>
        /\ ret.out.video_id = ret.before.out.video_id
        /\ ret.hit => /\ ret.out.stream_url = ret.before.out.stream_url
                      /\ ret.out.expires_at = ret.before.out.expires_at

----------------------------------------------------------------------------
(* Claims about the sweep *)

\* the freshness check of get: the age of the entry is within the TTL and,
\* for a Track, its stream URL is not within the buffer of its expiry
PassesFreshness(e, t) ==
    /\ ~TtlStale(e, t)
    /\ e.value.kind = "Track" => ~UrlExpired(e.value, t)

\* C12: a sweep of a store of Tracks and RecommendationSets removes exactly
\* the entries that fail the freshness check of get at the time of the
\* sweep, leaves every other entry as it was and raises nothing; a get that
\* follows returns the same whether or not the sweep ran.
C12_SweepExact ==
    [][DoSweep =>
          /\ ret'.out = None
          /\ cache' = [k \in {j \in DOMAIN cache : PassesFreshness(cache[j], now)}
                         |-> cache[k]]
          /\ \A q \in Queries :
                CacheGet(cache', q, now).out = CacheGet(cache, q, now).out]_vars

----------------------------------------------------------------------------
(* Claims about the keys of the cache *)

\* a lookup key after case-folding and trimming
Normalized(q) == Strip(Lower(q))

\* C13: after a set of a value under a key, a get under any key that is equal to it
\* after case-folding and trimming returns what a get under the key itself
\* returns (the value set, when that is a Track still fresh), and a get under
\* any key that differs after that normalization returns what it returned
\* before the set.
C13_KeyNormalization ==
    [][(ret'.op = "set" /\ <<ret, lastSet>>' # <<ret, lastSet>>) =>
          LET q == ret'.q
              v == lastSet'[CacheKey(ret'.q)].value
          IN  \A q2 \in Queries :
                  IF Normalized(q2) = Normalized(q)
                     THEN /\ CacheGet(cache', q2, now).out = CacheGet(cache', q, now).out
                          /\ (v.kind = "Track" /\ ~UrlExpired(v, now)) =>
                                 CacheGet(cache', q2, now).out = v
                     ELSE CacheGet(cache', q2, now).out = CacheGet(cache, q2, now).out]_vars

\* C13 witness: a set under " A" has replaced an older entry, a get under "a"
\* now returns the Track it stored, and the entry of "b" is there as well.
C13_Witness ==
    /\ ret.op = "set"
    /\ ret.q = <<" ", "A">>
    /\ lastSet[CacheKey(ret.q)].over
    /\ CacheGet(cache, <<"a">>, now).out = lastSet[CacheKey(ret.q)].value
    /\ CacheGet(cache, <<"a">>, now).out.kind = "Track"
    /\ CacheGet(cache, <<"b">>, now).out.kind = "Track"

----------------------------------------------------------------------------
(* Claims about expires_at *)

\* C14: a Track that a request has just extracted carries expires_at = the
\* time of the request + 14400, whatever the raw entry holds; a Track in the
\* cache carries the stamp of the time it was parsed and stored, and a Track
\* served from the cache at a later time is that stored Track, stamp included.
C14_ExpiryStamp ==
    /\ \A k \in DOMAIN cache :
          cache[k].value.kind = "Track" =>
              cache[k].value.expires_at = cache[k].cached_at + StreamHorizon
    /\ (ret.op \in {"lucky", "track", "next"} /\ ret.out.kind = "Track") =>
          IF ret.hit
             THEN \E k \in DOMAIN cache :
                     /\ cache[k].value = ret.out
                     /\ cache[k].cached_at <= ret.at
                     /\ ret.out.expires_at = cache[k].cached_at + StreamHorizon
             ELSE ret.out.expires_at = ret.at + StreamHorizon

\* C14 witness: a Track parsed and stored at one time is served from the
\* cache at a later time with the expires_at of the earlier time.
C14_Witness ==
    /\ ret.op = "track"
    /\ ret.hit
    /\ ret.out.kind = "Track"
    /\ ret.at > 0
    /\ ret.out.expires_at = StreamHorizon

----------------------------------------------------------------------------
(* Claims about the candidate list *)

\* the ids of the usable entries that a flat extraction has given, in the
\* extractor's order: the entries that are there and carry an id
UsableIds(info) ==
    IF info = None \/ ~info.has_entries THEN <<>>
    ELSE LET idx(i) == /\ info.entries[i] # None
                       /\ info.entries[i].id \notin {Missing, EmptyStr}
             Ids[i \in 0..Len(info.entries)] ==
                 IF i = 0 THEN <<>>
                 ELSE IF idx(i) THEN Append(Ids[i - 1], info.entries[i].id)
                 ELSE Ids[i - 1]
         IN  Ids[Len(info.entries)]

\* C15: when the extractor has not failed, get_mix_playlist returns the ids
\* of the usable entries in the extractor's order with mix_id = "RD" + seed,
\* and fails with NotFound when there is no usable entry; a returned
\* RecommendationSet never has an empty video_ids list.
C15_ListCandidates ==
    (ret.op = "mix" /\ ret.info.kind # "DownloadError") =>
        IF UsableIds(ret.info) = <<>>
           THEN IsFailure(ret.out, "NotFoundError")
           ELSE ret.out = MixPlaylistResponse(UsableIds(ret.info),
                                              <<"RD">> \o ret.req.video_id)

----------------------------------------------------------------------------
(* Claims about the handlers *)

\* C16: a request of any of the four operations whose X-API-Key is not the
\* configured key is answered with status 401, makes no extractor call and
\* leaves the cache as it was: no entry is evicted by a lookup, none written.
C16_RejectedBeforeAnything ==
    [][(served' = served + 1 /\ ret'.req.x_api_key # ApiKey) =>
          /\ ret'.out.kind = "HTTP"
          /\ ret'.out.status = 401
          /\ ~ret'.extracted
          /\ ret'.calls = <<>>
          /\ cache' = cache
          /\ lastSet' = lastSet]_vars

\* C16 witness: a request with a wrong key for a video whose cached Track is
\* past the TTL has been rejected, and the stale entry is still there.
C16_Witness ==
    /\ ret.op = "track"
    /\ ret.req.x_api_key # ApiKey
    /\ ret.out.kind = "HTTP"
    /\ ret.out.status = 401
    /\ CacheKey(<<"track:">> \o ret.req.arg) \in DOMAIN cache
    /\ TtlStale(cache[CacheKey(<<"track:">> \o ret.req.arg)], ret.at)

\* a request with the configured key is served in this step
ServesRequest == served' = served + 1 /\ ret'.req.x_api_key = ApiKey

\* the cache holds under the key of that request a value that passes the
\* freshness check
FindsFresh ==
    /\ CacheKey(ret'.key) \in DOMAIN cache
    /\ PassesFreshness(cache[CacheKey(ret'.key)], now)

\* C17: in each of the four operations, a request that finds a fresh cached
\* value under its key answers with that value and does not call the
\* extractor; the extractor is called only on a miss; and a successful
\* extraction is in the cache under the request's key, equal to the answer,
\* when the request has been served.
C17_CacheAside ==
    [][ServesRequest =>
          /\ FindsFresh => /\ ~ret'.extracted
                           /\ ret'.calls = <<>>
                           /\ ret'.out = cache[CacheKey(ret'.key)].value
          /\ ~FindsFresh => /\ ret'.extracted
                            /\ ret'.calls # <<>>
          /\ (ret'.extracted /\ ret'.out.kind \in {"Track", "Mix"}) =>
                /\ CacheKey(ret'.key) \in DOMAIN cache'
                /\ cache'[CacheKey(ret'.key)] = Entry(ret'.out, now)]_vars

----------------------------------------------------------------------------
(* Claims about the calls of the extractor *)

\* C18: search_and_extract, extract_by_id and get_mix_playlist call the
\* extractor exactly once; get_next_track calls it once flat for the seed and
\* then, only when that call succeeded and a candidate outside the exclusion
\* set was selected, exactly once more, in full, for the selected id; after a
\* failed call there is no further call.
C18_CallProtocol ==
    (ret.op \in SvcOps) =>
        CASE ret.op = "search" ->
                 ret.calls = <<ExtractInfo("search", ret.req.video_id)>>
          [] ret.op = "by_id" ->
                 ret.calls = <<ExtractInfo("full", ret.req.video_id)>>
          [] ret.op = "mix" ->
                 ret.calls = <<ExtractInfo("flat", ret.req.video_id)>>
          [] ret.op = "next" ->
                 /\ Len(ret.calls) \in {1, 2}
                 /\ ret.calls[1] = ExtractInfo("flat", ret.req.video_id)
                 /\ ret.info.kind = "DownloadError" => Len(ret.calls) = 1
                 /\ Len(ret.calls) = 2 <=> ret.sel.kind = "Id"
                 /\ Len(ret.calls) = 2 =>
                        /\ ret.calls[2] = ExtractInfo("full", ret.sel.id)
                        /\ ret.sel.id \notin ret.req.exclude \cup {ret.req.video_id}
                        /\ \E i \in 1..Len(ret.info.entries) :
                               /\ ret.info.entries[i] # None
                               /\ ret.info.entries[i].id = ret.sel.id

\* C18 witness: get_next_track with seed "a" and "b" excluded, on the
\* candidates [a, b, c], has made the flat call and the full call for "c",
\* which failed, and no other call.
C18_Witness ==
    /\ ret.op = "next"
    /\ ret.req.video_id = <<"a">>
    /\ ret.req.exclude = {<<"b">>}
    /\ ret.info = RawList(TRUE, <<FlatEntry(<<"a">>), FlatEntry(<<"b">>),
                                  FlatEntry(<<"c">>)>>)
    /\ ret.calls = <<ExtractInfo("flat", <<"a">>), ExtractInfo("full", <<"c">>)>>
    /\ IsFailure(ret.out, "ExtractionError")

----------------------------------------------------------------------------
(* Claims about the identity of the Track of resolve-by-id *)

\* C19: the extractor giving for a full fetch of an id the entry of that id,
\* every Track that resolve-by-id returns for a requested video_id has that
\* video_id, whatever ids were requested before and whether the Track was
\* extracted or served from the cache.
C19_TrackOfRequestedId ==
    (ret.op = "track" /\ ret.out.kind = "Track") =>
        ret.out.video_id = ret.req.arg

----------------------------------------------------------------------------
(* Claims about the keys of the four operations *)

\* C20: a value served from the cache to an operation was stored by an
\* earlier request of the same operation for the same normalized input, so
\* resolve-by-query never returns what another operation stored (nor the
\* other way round), and no operation that returns Tracks returns a
\* RecommendationSet.
C20_NoAliasAcrossOperations ==
    /\ (ret.op \in {"lucky", "mix", "track", "next"} /\ ret.hit) =>
          /\ lastSet[CacheKey(ret.key)].by.op = ret.op
          /\ Normalized(lastSet[CacheKey(ret.key)].by.arg) = Normalized(ret.req.arg)
    /\ ret.op \in {"lucky", "track", "next"} => ret.out.kind # "Mix"

----------------------------------------------------------------------------
(* Claims about failed extractions *)

\* the request served in this step has called the service, which failed with
\* NotFound or ExtractionFailed
ExtractionFailedNow ==
    /\ ServesRequest
    /\ ret'.extracted
    /\ ret'.out.kind = "HTTP"
    /\ ret'.out.status \in {404, 502}

\* the same request served again on cache c at time t: what the handler does
\* when the extractor fails once more
Again(req, c, t) ==
    LET boom == DownloadError(<<"boom">>) IN
    CASE req.op = "lucky" -> SearchLucky(c, req.arg, boom, t)
      [] req.op = "mix"   -> MixRoute(c, req.arg, boom, t)
      [] req.op = "track" -> TrackRoute(c, req.arg, boom, t)
      [] req.op = "next"  -> NextRoute(c, req.arg, req.exclude, boom,
                                       [id \in RouterVideoIds |-> boom], t)

\* C21: a request whose extraction fails with NotFound or ExtractionFailed
\* sets nothing: no entry is created or replaced, under its key or any other;
\* every entry of the cache is the Track or RecommendationSet of a successful
\* extraction; and the same request served again calls the extractor again.
C21_FailuresNotCached ==
    [][(served' = served + 1) =>
          /\ \A k \in DOMAIN cache' :
                /\ cache'[k].value.kind \in {"Track", "Mix"}
                /\ cache'[k] = Entry(lastSet'[k].value, lastSet'[k].cached_at)
          /\ ExtractionFailedNow =>
                /\ lastSet' = lastSet
                /\ \A k \in DOMAIN cache' :
                      k \in DOMAIN cache /\ cache'[k] = cache[k]
                /\ Again(ret'.req, cache', now).extracted
                /\ Again(ret'.req, cache', now).calls # <<>>]_vars

\* C21 witness: a get-next-unplayed request whose extraction failed has left
\* the Track cached under its key, stored by an earlier request, as it was.
C21_Witness ==
    /\ ret.op = "next"
    /\ ret.extracted
    /\ ret.out.kind = "HTTP"
    /\ ret.out.status \in {404, 502}
    /\ CacheKey(ret.key) \in DOMAIN cache
    /\ cache[CacheKey(ret.key)].value.kind = "Track"

====
